---- MODULE Spec2Model ----
(***************************************************************************)
(* Coffee machine: the domain layer (Container, CoffeeMachine), the three  *)
(* storage backends and the service that runs every request under one      *)
(* asyncio lock and persists after each successful mutation.               *)
(*                                                                         *)
(* A string built by an f-string is the non-empty sequence of its pieces   *)
(* and None is the empty sequence.  What load() returns, a file of the     *)
(* disk and MemoryStateStorage._state are sets with zero or one element:   *)
(* nothing, or one snapshot.  A JSON document is a tagged tree:            *)
(* <<"obj", members>> with members a sequence of <<key, document>> pairs   *)
(* in insertion order, <<"num", n>>, <<"str", s>> and <<"null">>.          *)
(***************************************************************************)
EXTENDS Integers, Sequences, FiniteSets, TLC

\* Settings.water_capacity_ml and Settings.coffee_capacity_g of the service
\* that runs on every backend.
WaterCapacity == 48
CoffeeCapacity == 16

\* The capacities of the machine of tests/test_machine.py.
TestWaterCapacity == 200
TestCoffeeCapacity == 100

\* The clients: each sends one request after the other, so each has one
\* coroutine of a service method at or after async with self._lock.
Requests == {"r1", "r2"}

\* Inputs of the requests.
RecipeKeys == {"espresso", "double_espresso", "americano", "ristretto", "latte"}
WaterAmounts == {-1, 0, 48}
CoffeeAmounts == {-1, 0, 8}
Backends == {"json", "sqlite", "memory"}

\* How many calls of save may raise in one run.
MaxFailures == 1

\* How many calls of save the holder of a MemoryStateStorage makes.
MaxSaves == 2

VARIABLES
    settings,     \* Settings.water_capacity_ml and Settings.coffee_capacity_g
    backend,      \* Settings.storage_backend
    _machine,     \* CoffeeMachineService._machine
    _lock,        \* CoffeeMachineService._lock: TRUE when held
    pc,           \* position of each request's coroutine
    args,         \* operation and arguments of each request
    usage,        \* local variable usage of CoffeeMachineService.brew
    files,        \* the storage path and its .tmp sibling on disk
    table,        \* the rows of the SQLite table machine_state
    _state,       \* MemoryStateStorage._state
    response,     \* what the last request to take the lock returned or raised
    handed,       \* the data the last request to take the lock gave to save
    saved,        \* the data of the last save that completed on this storage
    failures,     \* how many calls of save have raised
    heap,         \* the dict objects of a holder of a MemoryStateStorage, by id
    _state_id,    \* the id of the object MemoryStateStorage._state refers to
    held          \* the ids of the snapshot dicts the holder can reach

objects == <<heap, _state_id, held>>

vars == <<settings, backend, _machine, _lock, pc, args, usage, files, table, _state,
          response, handed, saved, failures, objects>>

----------------------------------------------------------------------------
\* Python's None as the value of an Optional[str].
None == <<>>

\* errors.py

NoError == [type |-> "None"]

ContainerEmptyError(container_name, required_amount, available_amount) ==
    [type |-> "ContainerEmptyError", container_name |-> container_name,
     required_amount |-> required_amount, available_amount |-> available_amount]

ContainerOverflowError(container_name, attempted_amount, free_capacity) ==
    [type |-> "ContainerOverflowError", container_name |-> container_name,
     attempted_amount |-> attempted_amount, free_capacity |-> free_capacity]

InvalidFillAmountError(container_name, attempted_amount) ==
    [type |-> "InvalidFillAmountError", container_name |-> container_name,
     attempted_amount |-> attempted_amount]

\* The classes derived from CoffeeMachineError.
CoffeeMachineError ==
    {"ContainerEmptyError", "ContainerOverflowError", "InvalidFillAmountError"}

\* raise ValueError(f"Unknown recipe '{recipe_key}'") in CoffeeMachine.brew
ValueError(recipe_key) == [type |-> "ValueError", recipe_key |-> recipe_key]

\* An exception of the file system or of sqlite3 raised inside save.
StorageError == [type |-> "StorageError"]

----------------------------------------------------------------------------
\* machine.py

RECIPES ==
    [espresso        |-> [water_ml |-> 24,  coffee_g |-> 8],
     double_espresso |-> [water_ml |-> 48,  coffee_g |-> 16],
     americano       |-> [water_ml |-> 148, coffee_g |-> 16],
     ristretto       |-> [water_ml |-> 16,  coffee_g |-> 8]]

NoUsage == [water_ml |-> 0, coffee_g |-> 0]

Container(name, capacity, level, unit) ==
    [name |-> name, capacity |-> capacity, level |-> level, unit |-> unit]

\* Container.use with the test self.level <= amount.
Container_use_Strict(self, amount) ==
    IF self.level <= amount
    THEN [self |-> self,
          raised |-> ContainerEmptyError(self.name, amount, self.level)]
    ELSE [self |-> [self EXCEPT !.level = self.level - amount],
          raised |-> NoError]

\* Container.use: the container after the call and the exception raised.
Container_use(self, amount) ==
    IF self.level < amount
    THEN [self |-> self,
          raised |-> ContainerEmptyError(self.name, amount, self.level)]
    ELSE [self |-> [self EXCEPT !.level = self.level - amount],
          raised |-> NoError]

\* Container.fill without the test of the free space.
Container_fill_Unchecked(self, amount) ==
    IF amount <= 0
    THEN [self |-> self, raised |-> InvalidFillAmountError(self.name, amount)]
    ELSE [self |-> [self EXCEPT !.level = self.level + amount],
          raised |-> NoError]

\* Container.fill with the test free_space <= amount.
Container_fill_StrictRoom(self, amount) ==
    IF amount <= 0
    THEN [self |-> self, raised |-> InvalidFillAmountError(self.name, amount)]
    ELSE LET free_space == self.capacity - self.level IN
         IF free_space <= amount
         THEN [self |-> self,
               raised |-> ContainerOverflowError(self.name, amount, free_space)]
         ELSE [self |-> [self EXCEPT !.level = self.level + amount],
               raised |-> NoError]

\* Container.fill with the test amount < 0.
Container_fill_AllowsZero(self, amount) ==
    IF amount < 0
    THEN [self |-> self, raised |-> InvalidFillAmountError(self.name, amount)]
    ELSE LET free_space == self.capacity - self.level IN
         IF free_space < amount
         THEN [self |-> self,
               raised |-> ContainerOverflowError(self.name, amount, free_space)]
         ELSE [self |-> [self EXCEPT !.level = self.level + amount],
               raised |-> NoError]

\* Container.fill: the container after the call and the exception raised.
Container_fill(self, amount) ==
    IF amount <= 0
    THEN [self |-> self, raised |-> InvalidFillAmountError(self.name, amount)]
    ELSE LET free_space == self.capacity - self.level IN
         IF free_space < amount
         THEN [self |-> self,
               raised |-> ContainerOverflowError(self.name, amount, free_space)]
         ELSE [self |-> [self EXCEPT !.level = self.level + amount],
               raised |-> NoError]

Container_to_dict(self) ==
    [capacity |-> self.capacity, level |-> self.level,
     unit |-> self.unit, name |-> self.name]

\* Container.from_dict with level=data["capacity"].
Container_from_dict_Full(data) ==
    Container(data["name"], data["capacity"], data["capacity"], data["unit"])

Container_from_dict(data) ==
    Container(data["name"], data["capacity"], data["level"], data["unit"])

\* str(n) of a non-negative integer: its decimal digits.
Digit(d) == SubSeq(<<"0", "1", "2", "3", "4", "5", "6", "7", "8", "9">>, d + 1, d + 1)

RECURSIVE str(_)
str(n) == IF n < 10 THEN Digit(n) ELSE str(n \div 10) \o Digit(n % 10)

\* recipe_key.replace("_", " ").title() on the keys of RECIPES.
_friendly_name(recipe_key) ==
    CASE recipe_key = "espresso"        -> "Espresso"
      [] recipe_key = "double_espresso" -> "Double Espresso"
      [] recipe_key = "americano"       -> "Americano"
      [] recipe_key = "ristretto"       -> "Ristretto"

CoffeeMachine(water_container, coffee_container, last_message) ==
    [water_container |-> water_container,
     coffee_container |-> coffee_container,
     last_message |-> last_message]

\* CoffeeMachine.brew without self.coffee_container.use(recipe["coffee_g"]).
CoffeeMachine_brew_CoffeeFirst(self, recipe_key) ==
    IF recipe_key \notin DOMAIN RECIPES
    THEN [self |-> self, raised |-> ValueError(recipe_key), ret |-> NoUsage]
    ELSE
    LET recipe == RECIPES[recipe_key]
        coffee == Container_use(self.coffee_container, recipe.coffee_g)
        self1 == [self EXCEPT !.coffee_container = coffee.self]
        water == Container_use(self1.water_container, recipe.water_ml)
        self2 == [self1 EXCEPT !.water_container = water.self]
    IN  IF coffee.raised # NoError
        THEN [self |-> self, raised |-> coffee.raised, ret |-> NoUsage]
        ELSE IF water.raised # NoError
        THEN [self |-> self1, raised |-> water.raised, ret |-> NoUsage]
        ELSE [self |-> [self2 EXCEPT !.last_message =
                            <<_friendly_name(recipe_key), " is ready!">>],
              raised |-> NoError, ret |-> recipe]

CoffeeMachine_brew_SkipsCoffee(self, recipe_key) ==
    IF recipe_key \notin DOMAIN RECIPES
    THEN [self |-> self, raised |-> ValueError(recipe_key), ret |-> NoUsage]
    ELSE
    LET recipe == RECIPES[recipe_key]
        water == Container_use(self.water_container, recipe.water_ml)
        self1 == [self EXCEPT !.water_container = water.self]
    IN  IF water.raised # NoError
        THEN [self |-> self, raised |-> water.raised, ret |-> NoUsage]
        ELSE [self |-> [self1 EXCEPT !.last_message =
                            <<_friendly_name(recipe_key), " is ready!">>],
              raised |-> NoError, ret |-> recipe]

\* CoffeeMachine.brew: the machine after the call, the exception raised and
\* the value returned.
CoffeeMachine_brew(self, recipe_key) ==
    IF recipe_key \notin DOMAIN RECIPES
    THEN [self |-> self, raised |-> ValueError(recipe_key), ret |-> NoUsage]
    ELSE
    LET recipe == RECIPES[recipe_key]
        water == Container_use(self.water_container, recipe.water_ml)
        self1 == [self EXCEPT !.water_container = water.self]
        coffee == Container_use(self1.coffee_container, recipe.coffee_g)
        self2 == [self1 EXCEPT !.coffee_container = coffee.self]
    IN  IF water.raised # NoError
        THEN [self |-> self, raised |-> water.raised, ret |-> NoUsage]
        ELSE IF coffee.raised # NoError
        THEN [self |-> self1, raised |-> coffee.raised, ret |-> NoUsage]
        ELSE [self |-> [self2 EXCEPT !.last_message =
                            <<_friendly_name(recipe_key), " is ready!">>],
              raised |-> NoError, ret |-> recipe]

CoffeeMachine_fill_water(self, amount_ml) ==
    LET water == Container_fill(self.water_container, amount_ml) IN
    IF water.raised # NoError
    THEN [self |-> self, raised |-> water.raised]
    ELSE [self |-> [self EXCEPT
                      !.water_container = water.self,
                      !.last_message =
                          <<"Added ">> \o str(amount_ml) \o <<" ml of water.">>],
          raised |-> NoError]

CoffeeMachine_fill_coffee(self, amount_g) ==
    LET coffee == Container_fill(self.coffee_container, amount_g) IN
    IF coffee.raised # NoError
    THEN [self |-> self, raised |-> coffee.raised]
    ELSE [self |-> [self EXCEPT
                      !.coffee_container = coffee.self,
                      !.last_message =
                          <<"Added ">> \o str(amount_g) \o <<" g of coffee.">>],
          raised |-> NoError]

CoffeeMachine_status(self) ==
    [water |-> Container_to_dict(self.water_container),
     coffee |-> Container_to_dict(self.coffee_container),
     last_message |-> self.last_message]

CoffeeMachine_to_dict(self) ==
    [water |-> Container_to_dict(self.water_container),
     coffee |-> Container_to_dict(self.coffee_container),
     last_message |-> self.last_message]

CoffeeMachine_from_dict(data) ==
    CoffeeMachine(Container_from_dict(data["water"]),
                  Container_from_dict(data["coffee"]),
                  data["last_message"])

default_machine(water_capacity, coffee_capacity) ==
    CoffeeMachine(Container("water", water_capacity, water_capacity, "ml"),
                  Container("coffee", coffee_capacity, coffee_capacity, "g"),
                  None)

----------------------------------------------------------------------------
\* storage.py

json_dumps_container(d) ==
    <<"obj", << <<"capacity", <<"num", d.capacity>> >>,
                <<"level", <<"num", d.level>> >>,
                <<"unit", <<"str", d.unit>> >>,
                <<"name", <<"str", d.name>> >> >> >>

\* json.dumps of the dict built by CoffeeMachine.to_dict, keys in the order
\* to_dict inserts them.
json_dumps(data) ==
    <<"obj", << <<"water", json_dumps_container(data.water)>>,
                <<"coffee", json_dumps_container(data.coffee)>>,
                <<"last_message",
                  IF data.last_message = None
                  THEN <<"null">>
                  ELSE <<"str", data.last_message>> >> >> >>

\* json.loads: an object becomes a dict (the last member of a key wins), a
\* number or a string its value, null becomes None.
RECURSIVE json_loads(_)
json_loads(doc) ==
    CASE doc[1] = "obj" ->
           LET members == doc[2]
               last(k) == CHOOSE i \in DOMAIN members :
                             /\ members[i][1] = k
                             /\ \A j \in DOMAIN members :
                                    members[j][1] = k => j <= i
           IN  [k \in {members[i][1] : i \in DOMAIN members} |->
                   json_loads(members[last(k)][2])]
      [] doc[1] = "null" -> None
      [] OTHER -> doc[2]

\* A document whose write stopped before its end.
Truncated(doc) == <<"cut", SubSeq(doc[2], 1, 1)>>

NoFiles == [path |-> {}, tmp_path |-> {}]

JSONStateStorage_load(fs) ==
    IF fs.path = {} THEN {} ELSE {json_loads(doc) : doc \in fs.path}

\* JSONStateStorage.save without tmp_path.replace(self.path).
JSONStateStorage_save_NoReplace(fs, data) ==
    [fs EXCEPT !.tmp_path = {json_dumps(data)}]

\* JSONStateStorage.save: dump into the .tmp sibling, then replace the path.
JSONStateStorage_save(fs, data) ==
    LET written == [fs EXCEPT !.tmp_path = {json_dumps(data)}]
    IN  [written EXCEPT !.path = written.tmp_path, !.tmp_path = {}]

\* What a save that opens and dumps into self.path itself may leave on disk
\* when it raises.
JSONStateStorage_save_raises_InPlace(fs, data) ==
    {fs,
     [fs EXCEPT !.path = {Truncated(json_dumps(data))}],
     [fs EXCEPT !.path = {json_dumps(data)}]}

\* What a save that raises may leave on disk: nothing new, a cut .tmp file, or
\* a whole .tmp file that was not moved over the path.
JSONStateStorage_save_raises(fs, data) ==
    {fs,
     [fs EXCEPT !.tmp_path = {Truncated(json_dumps(data))}],
     [fs EXCEPT !.tmp_path = {json_dumps(data)}]}

MemoryStateStorage_load(state) == state

MemoryStateStorage_save(data) == {json_loads(json_dumps(data))}

SQLiteStateStorage_load(rows) ==
    {json_loads(row.payload) : row \in {r \in rows : r.id = 1}}

\* SQLiteStateStorage.save with INSERT OR IGNORE.
SQLiteStateStorage_save_Ignore(rows, data) ==
    IF \E r \in rows : r.id = 1
    THEN rows
    ELSE rows \cup {[id |-> 1, payload |-> json_dumps(data)]}

\* INSERT OR REPLACE INTO machine_state (id, payload) VALUES (1, ?)
SQLiteStateStorage_save(rows, data) ==
    {r \in rows : r.id # 1} \cup {[id |-> 1, payload |-> json_dumps(data)]}

\* StateStorage.load of the backend build_storage selected.
Storage_load(b, fs, rows, state) ==
    CASE b = "json"   -> JSONStateStorage_load(fs)
      [] b = "sqlite" -> SQLiteStateStorage_load(rows)
      [] b = "memory" -> MemoryStateStorage_load(state)

----------------------------------------------------------------------------
\* service.py

\* CoffeeMachineService._load_machine on what self._storage.load() returned.
_load_machine(state, _settings) ==
    IF state # {}
    THEN CoffeeMachine_from_dict(CHOOSE d \in state : TRUE)
    ELSE default_machine(_settings.water_capacity_ml,
                         _settings.coffee_capacity_g)

NoArgs == [op |-> "none", recipe_key |-> "", amount |-> 0]

\* The calls on the service and their arguments: those of the endpoints of
\* main.py and a brew of a name that is not in the table.
Calls ==
    {[op |-> "brew", recipe_key |-> k, amount |-> 0] : k \in RecipeKeys}
    \cup {[op |-> "fill_water", recipe_key |-> "", amount |-> n] : n \in WaterAmounts}
    \cup {[op |-> "fill_coffee", recipe_key |-> "", amount |-> n] : n \in CoffeeAmounts}
    \cup {[op |-> "status", recipe_key |-> "", amount |-> 0]}

NoBody == [message |-> None]

NoResponse == [op |-> "none", raised |-> NoError, body |-> NoBody]

\* Positions of a coroutine between acquiring and releasing self._lock.
Inside == {"locked", "persist", "respond"}

\* The state after CoffeeMachineService.__init__ on a storage that holds
\* nothing yet.
Constructed ==
    /\ files = NoFiles
    /\ table = {}
    /\ _state = {}
    /\ _machine = _load_machine(Storage_load(backend, NoFiles, {}, {}), settings)
    /\ _lock = FALSE
    /\ pc = [r \in Requests |-> "acquire"]
    /\ args = [r \in Requests |-> NoArgs]
    /\ usage = [r \in Requests |-> NoUsage]
    /\ response = NoResponse
    /\ handed = {}
    /\ saved = {}
    /\ failures = 0

\* No code but the service holds the storage: no dict is reachable from
\* outside of it.
NoObjects ==
    /\ heap = <<>>
    /\ _state_id = {}
    /\ held = {}

Init ==
    /\ settings = [water_capacity_ml |-> WaterCapacity,
                   coffee_capacity_g |-> CoffeeCapacity]
    /\ backend \in Backends
    /\ Constructed
    /\ NoObjects

\* The service of tests/test_storage.py on the memory backend, with the
\* capacities of the machine of tests/test_machine.py.
InitTest ==
    /\ settings = [water_capacity_ml |-> TestWaterCapacity,
                   coffee_capacity_g |-> TestCoffeeCapacity]
    /\ backend = "memory"
    /\ Constructed
    /\ NoObjects

\* async with self._lock that does not wait for the lock.
Acquire_Unguarded(r) ==
    /\ pc[r] = "acquire"
    /\ _lock' = TRUE
    /\ \E call \in Calls : args' = [args EXCEPT ![r] = call]
    /\ pc' = [pc EXCEPT ![r] = "locked"]
    /\ response' = NoResponse
    /\ handed' = {}
    /\ UNCHANGED <<objects, settings, backend, _machine, usage, files, table, _state,
                   saved, failures>>

\* async with self._lock: entered when the lock is free.  The arguments of
\* the call are first read inside the lock, so they are drawn here.  What
\* the request before returned and handed to save has reached its caller.
Acquire(r) ==
    /\ pc[r] = "acquire"
    /\ ~_lock
    /\ _lock' = TRUE
    /\ \E call \in Calls : args' = [args EXCEPT ![r] = call]
    /\ pc' = [pc EXCEPT ![r] = "locked"]
    /\ response' = NoResponse
    /\ handed' = {}
    /\ UNCHANGED <<objects, settings, backend, _machine, usage, files, table, _state,
                   saved, failures>>

\* An exception that leaves the block without releasing the lock.
Raise_KeepsLock(r, err) ==
    /\ _lock' = _lock
    /\ pc' = [pc EXCEPT ![r] = "acquire"]
    /\ args' = [args EXCEPT ![r] = NoArgs]
    /\ usage' = [usage EXCEPT ![r] = NoUsage]
    /\ response' = [op |-> args[r].op, raised |-> err, body |-> NoBody]

\* The exception err leaves the async with block of request r: the lock is
\* released and the caller of the service method gets err.  The next request
\* of the client arrives.
Raise(r, err) ==
    /\ _lock' = FALSE
    /\ pc' = [pc EXCEPT ![r] = "acquire"]
    /\ args' = [args EXCEPT ![r] = NoArgs]
    /\ usage' = [usage EXCEPT ![r] = NoUsage]
    /\ response' = [op |-> args[r].op, raised |-> err, body |-> NoBody]

\* The return statement of request r: the lock is released and the caller of
\* the service method gets body.  The next request of the client arrives.
Return(r, body) ==
    /\ _lock' = FALSE
    /\ pc' = [pc EXCEPT ![r] = "acquire"]
    /\ args' = [args EXCEPT ![r] = NoArgs]
    /\ usage' = [usage EXCEPT ![r] = NoUsage]
    /\ response' = [op |-> args[r].op, raised |-> NoError, body |-> body]

\* CoffeeMachineService.brew with the call of self._persist() in a finally
\* clause: the state is saved also when the machine raised.
Service_brew_PersistsOnError(r) ==
    /\ pc[r] = "locked"
    /\ args[r].op = "brew"
    /\ LET res == CoffeeMachine_brew(_machine, args[r].recipe_key)
           data == CoffeeMachine_to_dict(res.self)
       IN  /\ _machine' = res.self
           /\ IF res.raised # NoError
              THEN /\ Raise(r, res.raised)
                   /\ handed' = {data}
                   /\ saved' = {data}
                   /\ files' = IF backend = "json"
                               THEN JSONStateStorage_save(files, data) ELSE files
                   /\ table' = IF backend = "sqlite"
                               THEN SQLiteStateStorage_save(table, data) ELSE table
                   /\ _state' = IF backend = "memory"
                                THEN MemoryStateStorage_save(data) ELSE _state
              ELSE /\ usage' = [usage EXCEPT ![r] = res.ret]
                   /\ pc' = [pc EXCEPT ![r] = "persist"]
                   /\ UNCHANGED <<_lock, args, response, files, table, _state,
                                  handed, saved>>
    /\ UNCHANGED <<objects, settings, backend, failures>>

\* usage = self._machine.brew(recipe_key)
Service_brew(r) ==
    /\ pc[r] = "locked"
    /\ args[r].op = "brew"
    /\ LET res == CoffeeMachine_brew(_machine, args[r].recipe_key) IN
       /\ _machine' = res.self
       /\ IF res.raised # NoError
          THEN Raise(r, res.raised)
          ELSE /\ usage' = [usage EXCEPT ![r] = res.ret]
               /\ pc' = [pc EXCEPT ![r] = "persist"]
               /\ UNCHANGED <<_lock, args, response>>
    /\ UNCHANGED <<objects, settings, backend, files, table, _state, handed, saved, failures>>

\* self._machine.fill_water(amount_ml)
Service_fill_water(r) ==
    /\ pc[r] = "locked"
    /\ args[r].op = "fill_water"
    /\ LET res == CoffeeMachine_fill_water(_machine, args[r].amount) IN
       /\ _machine' = res.self
       /\ IF res.raised # NoError
          THEN Raise(r, res.raised)
          ELSE /\ pc' = [pc EXCEPT ![r] = "persist"]
               /\ UNCHANGED <<_lock, args, usage, response>>
    /\ UNCHANGED <<objects, settings, backend, files, table, _state, handed, saved, failures>>

\* self._machine.fill_coffee(amount_g)
Service_fill_coffee(r) ==
    /\ pc[r] = "locked"
    /\ args[r].op = "fill_coffee"
    /\ LET res == CoffeeMachine_fill_coffee(_machine, args[r].amount) IN
       /\ _machine' = res.self
       /\ IF res.raised # NoError
          THEN Raise(r, res.raised)
          ELSE /\ pc' = [pc EXCEPT ![r] = "persist"]
               /\ UNCHANGED <<_lock, args, usage, response>>
    /\ UNCHANGED <<objects, settings, backend, files, table, _state, handed, saved, failures>>

\* CoffeeMachineService.status with a call of self._persist() before the
\* return.
Service_status_Persists(r) ==
    /\ pc[r] = "locked"
    /\ args[r].op = "status"
    /\ Return(r, CoffeeMachine_status(_machine))
    /\ LET data == CoffeeMachine_to_dict(_machine) IN
       /\ handed' = {data}
       /\ saved' = {data}
       /\ files' = IF backend = "json"
                   THEN JSONStateStorage_save(files, data) ELSE files
       /\ table' = IF backend = "sqlite"
                   THEN SQLiteStateStorage_save(table, data) ELSE table
       /\ _state' = IF backend = "memory"
                    THEN MemoryStateStorage_save(data) ELSE _state
    /\ UNCHANGED <<objects, settings, backend, _machine, failures>>

\* CoffeeMachineService.status: return self._machine.status()
Service_status(r) ==
    /\ pc[r] = "locked"
    /\ args[r].op = "status"
    /\ Return(r, CoffeeMachine_status(_machine))
    /\ UNCHANGED <<objects, settings, backend, _machine, files, table, _state, handed, saved,
                   failures>>

\* CoffeeMachineService._persist when save completes.
_persist(r) ==
    /\ pc[r] = "persist"
    /\ LET data == CoffeeMachine_to_dict(_machine) IN
       /\ handed' = {data}
       /\ saved' = {data}
       /\ files' = IF backend = "json"
                   THEN JSONStateStorage_save(files, data) ELSE files
       /\ table' = IF backend = "sqlite"
                   THEN SQLiteStateStorage_save(table, data) ELSE table
       /\ _state' = IF backend = "memory"
                    THEN MemoryStateStorage_save(data) ELSE _state
    /\ pc' = [pc EXCEPT ![r] = "respond"]
    /\ UNCHANGED <<objects, settings, backend, _machine, _lock, args, usage, response, failures>>

\* CoffeeMachineService._persist when save raises, with the machine set back
\* to what the storage holds.
_persist_raises_Reverts(r) ==
    /\ pc[r] = "persist"
    /\ backend \in {"json", "sqlite"}
    /\ failures < MaxFailures
    /\ failures' = failures + 1
    /\ LET data == CoffeeMachine_to_dict(_machine) IN
       /\ handed' = {data}
       /\ files' \in IF backend = "json"
                     THEN JSONStateStorage_save_raises(files, data) ELSE {files}
    /\ _machine' = _load_machine(Storage_load(backend, files, table, _state), settings)
    /\ Raise(r, StorageError)
    /\ UNCHANGED <<objects, settings, backend, table, _state, saved>>

\* CoffeeMachineService._persist when save raises: the file system or sqlite3
\* failed.  The path and the table keep what they held.
_persist_raises(r) ==
    /\ pc[r] = "persist"
    /\ backend \in {"json", "sqlite"}
    /\ failures < MaxFailures
    /\ failures' = failures + 1
    /\ LET data == CoffeeMachine_to_dict(_machine) IN
       /\ handed' = {data}
       /\ files' \in IF backend = "json"
                     THEN JSONStateStorage_save_raises(files, data) ELSE {files}
    /\ Raise(r, StorageError)
    /\ UNCHANGED <<objects, settings, backend, _machine, table, _state, saved>>

\* The return statement of brew, fill_water and fill_coffee.
Service_return(r) ==
    /\ pc[r] = "respond"
    /\ Return(r, IF args[r].op = "brew"
                 THEN [message |-> _machine.last_message,
                       drink |-> args[r].recipe_key,
                       used |-> usage[r],
                       status |-> CoffeeMachine_status(_machine)]
                 ELSE [message |-> _machine.last_message,
                       status |-> CoffeeMachine_status(_machine)])
    /\ UNCHANGED <<objects, settings, backend, _machine, files, table, _state, handed, saved,
                   failures>>

\* The process ends and a new one starts: build_storage makes a new storage
\* object on the same path and CoffeeMachineService.__init__ loads from it.
Restart ==
    /\ _state' = {}
    /\ _machine' = _load_machine(Storage_load(backend, files, table, {}),
                                 settings)
    /\ _lock' = FALSE
    /\ pc' = [r \in Requests |-> "acquire"]
    /\ args' = [r \in Requests |-> NoArgs]
    /\ usage' = [r \in Requests |-> NoUsage]
    /\ response' = NoResponse
    /\ handed' = {}
    /\ saved' = IF backend = "memory" THEN {} ELSE saved
    /\ UNCHANGED <<objects, settings, backend, files, table, failures>>

Next ==
    \/ \E r \in Requests :
          \/ Acquire(r)
          \/ Service_brew(r)
          \/ Service_fill_water(r)
          \/ Service_fill_coffee(r)
          \/ Service_status(r)
          \/ _persist(r)
          \/ _persist_raises(r)
          \/ Service_return(r)
    \/ Restart

Spec == Init /\ [][Next]_vars

\* The memory backend never raises in save.
NextTest ==
    \/ \E r \in Requests :
          \/ Acquire(r)
          \/ Service_brew(r)
          \/ Service_fill_water(r)
          \/ Service_fill_coffee(r)
          \/ Service_status(r)
          \/ _persist(r)
          \/ Service_return(r)
    \/ Restart

SpecTest == InitTest /\ [][NextTest]_vars

\* The steps of request r between acquiring and releasing the lock.
Run(r) ==
    \/ Service_brew(r)
    \/ Service_fill_water(r)
    \/ Service_fill_coffee(r)
    \/ Service_status(r)
    \/ _persist(r)
    \/ _persist_raises(r)
    \/ Service_return(r)

\* The service while its process runs.
NextRunning ==
    \E r \in Requests :
        \/ Acquire(r)
        \/ Run(r)

\* The event loop runs every coroutine that can continue: the block under the
\* lock has no await and runs to its end, and asyncio.Lock wakes its waiters
\* in the order they came, so no waiter is passed over for ever.
SpecFair ==
    /\ Init
    /\ [][NextRunning]_vars
    /\ \A r \in Requests : SF_vars(Acquire(r)) /\ WF_vars(Run(r))

\* The service of main.py on a storage whose save never raises.
SpecSaveNeverFails == Init /\ [][NextTest]_vars

\* The dict objects json.loads builds for the document of a snapshot: the
\* two container dicts, then the dict that refers to them.
Allocate(h, data) ==
    h \o <<data.water, data.coffee,
           [water |-> Len(h) + 1, coffee |-> Len(h) + 2,
            last_message |-> data.last_message]>>

\* What the code that holds the snapshot dict id reads from it.
Deref(h, id) ==
    [water |-> h[h[id].water], coffee |-> h[h[id].coffee],
     last_message |-> h[id].last_message]

\* A MemoryStateStorage in the hands of code that keeps the dicts it passes
\* to save and gets from load: it holds the dict of a machine that brewed an
\* espresso, the storage holds nothing.
InitMemoryStorage ==
    /\ settings = [water_capacity_ml |-> WaterCapacity,
                   coffee_capacity_g |-> CoffeeCapacity]
    /\ backend = "memory"
    /\ Constructed
    /\ heap = Allocate(<<>>, CoffeeMachine_to_dict(
                               CoffeeMachine_brew(_machine, "espresso").self))
    /\ _state_id = {}
    /\ held = {Len(heap)}

\* MemoryStateStorage.save(data) on the dict d: self._state becomes a new
\* object, json.loads(json.dumps(data)).
Holder_save ==
    \E d \in held :
        /\ Len(heap) < 3 * (1 + MaxSaves)
        /\ LET data == Deref(heap, d) IN
           /\ heap' = Allocate(heap, json_loads(json_dumps(data)))
           /\ _state_id' = {Len(heap')}
           /\ _state' = {Deref(heap', Len(heap'))}
           /\ handed' = {data}
           /\ saved' = {data}
        /\ UNCHANGED <<held, settings, backend, _machine, _lock, pc, args, usage, files,
                       table, response, failures>>

\* MemoryStateStorage.load(): return self._state, the object itself.
Holder_load ==
    /\ _state_id # {}
    /\ held' = held \cup _state_id
    /\ UNCHANGED <<heap, _state_id, settings, backend, _machine, _lock, pc, args,
                   usage, files, table, _state, response, handed, saved, failures>>

\* snapshot["water"]["level"] = 0 on a dict the holder passed to save or got
\* from load.
Holder_set_level ==
    \E d \in held :
        /\ heap[heap[d].water].level # 0
        /\ heap' = [heap EXCEPT ![heap[d].water].level = 0]
        /\ _state' = {Deref(heap', id) : id \in _state_id}
        /\ UNCHANGED <<_state_id, held, settings, backend, _machine, _lock, pc, args,
                       usage, files, table, response, handed, saved, failures>>

\* snapshot["last_message"] = None on a dict the holder passed to save or got
\* from load.
Holder_set_message ==
    \E d \in held :
        /\ heap[d].last_message # None
        /\ heap' = [heap EXCEPT ![d].last_message = None]
        /\ _state' = {Deref(heap', id) : id \in _state_id}
        /\ UNCHANGED <<_state_id, held, settings, backend, _machine, _lock, pc, args,
                       usage, files, table, response, handed, saved, failures>>

NextMemoryStorage ==
    \/ Holder_save
    \/ Holder_load
    \/ Holder_set_level
    \/ Holder_set_message

SpecMemoryStorage == InitMemoryStorage /\ [][NextMemoryStorage]_vars

----------------------------------------------------------------------------
\* main.py

\* str(n) of an integer.
str_int(n) == IF n < 0 THEN <<"-">> \o str(-n) ELSE str(n)

\* str(exc): __str__ of the classes of errors.py, the argument of ValueError,
\* the text of the exception of the file system or of sqlite3.
Exception_str(exc) ==
    CASE exc.type = "ContainerEmptyError" ->
            <<"Cannot make coffee because the ", exc.container_name,
              " container only has ">> \o str_int(exc.available_amount)
            \o <<" available but ">> \o str_int(exc.required_amount)
            \o <<" is required.">>
      [] exc.type = "ContainerOverflowError" ->
            <<"Adding ">> \o str_int(exc.attempted_amount)
            \o <<" to the ", exc.container_name,
                 " container would overflow it. It has room for only ">>
            \o str_int(exc.free_capacity) \o <<" more.">>
      [] exc.type = "InvalidFillAmountError" ->
            <<"The amount (">> \o str_int(exc.attempted_amount)
            \o <<") to add to the ", exc.container_name,
                 " container must be a positive number.">>
      [] exc.type = "ValueError" ->
            <<"Unknown recipe '", exc.recipe_key, "'">>
      [] OTHER -> <<exc.type>>

handle_machine_error(exc) ==
    [status_code |-> 400, content |-> [message |-> Exception_str(exc)]]

handle_unexpected_error(exc) ==
    [status_code |-> 500,
     content |-> [message |-> <<"Unexpected error occurred">>,
                  details |-> Exception_str(exc)]]

\* The handler the application picks for an exception an endpoint raised:
\* the one registered for the nearest class of the exception.
exception_handler(exc) ==
    IF exc.type \in CoffeeMachineError
    THEN handle_machine_error(exc)
    ELSE handle_unexpected_error(exc)

----------------------------------------------------------------------------
\* Properties

Mutations == {"brew", "fill_water", "fill_coffee"}
Durable == {"json", "sqlite"}

WithinCapacity(level, capacity) == 0 <= level /\ level <= capacity

\* What a load of the storage of the running service returns.
Stored == Storage_load(backend, files, table, _state)

\* The step in which request r runs the machine operation op.
MachineStep(r, op) ==
    /\ pc[r] = "locked"
    /\ args[r].op = op
    /\ pc'[r] = "persist" \/ response'.raised # NoError

\* C1: in every reachable state both containers satisfy
\* 0 <= level <= capacity, and so does every snapshot handed to save and
\* every snapshot the storage holds.
C1_LevelsWithinCapacity ==
    /\ WithinCapacity(_machine.water_container.level,
                      _machine.water_container.capacity)
    /\ WithinCapacity(_machine.coffee_container.level,
                      _machine.coffee_container.capacity)
    /\ \A d \in handed \cup saved \cup Stored :
          /\ WithinCapacity(d.water.level, d.water.capacity)
          /\ WithinCapacity(d.coffee.level, d.coffee.capacity)

\* After a save that raised, a snapshot with an empty coffee container and a
\* water container filled back to its capacity was handed to save.
C1_Witness ==
    /\ handed # {}
    /\ \E d \in handed : d.coffee.level = 0
    /\ _machine.water_container.level = _machine.water_container.capacity
    /\ failures > 0

\* C2: a brew that fails on the coffee container (water sufficient, coffee
\* insufficient) leaves the water level as it was before the call.
C2_FailedBrewLeavesWater ==
    [][\A r \in Requests :
          (/\ MachineStep(r, "brew")
           /\ response'.raised.type = "ContainerEmptyError"
           /\ response'.raised.container_name = "coffee")
          => _machine'.water_container.level = _machine.water_container.level]_vars

\* C3: a brew of a recipe of the table in a state with enough water and
\* enough coffee succeeds, takes exactly the recipe's water_ml and coffee_g
\* from the containers and returns exactly those two amounts.
C3_BrewDebitsExactly ==
    [][\A r \in Requests :
          (/\ MachineStep(r, "brew")
           /\ args[r].recipe_key \in DOMAIN RECIPES
           /\ _machine.water_container.level >= RECIPES[args[r].recipe_key].water_ml
           /\ _machine.coffee_container.level >= RECIPES[args[r].recipe_key].coffee_g)
          => /\ pc'[r] = "persist"
             /\ response' = response
             /\ _machine'.water_container.level =
                  _machine.water_container.level - RECIPES[args[r].recipe_key].water_ml
             /\ _machine'.coffee_container.level =
                  _machine.coffee_container.level - RECIPES[args[r].recipe_key].coffee_g
             /\ usage'[r] = RECIPES[args[r].recipe_key]]_vars

\* An americano has been brewed from full containers.
C3_Witness ==
    \E r \in Requests :
        /\ pc[r] = "persist"
        /\ args[r].recipe_key = "americano"
        /\ usage[r] = [water_ml |-> 148, coffee_g |-> 16]
        /\ _machine.water_container.level = settings.water_capacity_ml - 148
        /\ _machine.coffee_container.level = settings.coffee_capacity_g - 16

\* C4: at most one request is between acquiring and releasing the lock, the
\* lock is held exactly while a request is there, so from the machine call
\* to the return no other request is at a position where it reads or
\* changes the machine.
C4_Serialized ==
    /\ Cardinality({r \in Requests : pc[r] \in Inside}) <= 1
    /\ _lock <=> (\E r \in Requests : pc[r] \in Inside)
    /\ \A r1, r2 \in Requests :
          (r1 # r2 /\ pc[r1] \in {"persist", "respond"}) => pc[r2] = "acquire"

\* One request is between its mutation and its persist while the other
\* waits for the lock.
C4_Witness ==
    \E r1, r2 \in Requests :
        /\ r1 # r2
        /\ pc[r1] = "persist"
        /\ pc[r2] = "acquire"
        /\ _lock

\* C5: when a mutation is about to return, save has been called with the
\* machine state after the mutation while the lock is still held, and the
\* storage holds exactly that state; the status a mutation returned is what
\* the storage holds.
C5_PersistedBeforeReturn ==
    /\ \A r \in Requests :
          pc[r] = "respond" =>
             /\ _lock
             /\ handed = {CoffeeMachine_to_dict(_machine)}
             /\ Stored = {CoffeeMachine_to_dict(_machine)}
    /\ (response.op \in Mutations /\ response.raised = NoError) =>
          /\ handed = {response.body.status}
          /\ Stored = {response.body.status}

\* A fill_coffee is about to return: its save replaced the snapshot of the
\* brew that took the coffee.
C5_Witness ==
    \E r \in Requests :
        /\ pc[r] = "respond"
        /\ args[r].op = "fill_coffee"
        /\ Stored # {}
        /\ \A d \in Stored : d.last_message = <<"Added ", "8", " g of coffee.">>

\* C6: a new service starts with the snapshot of the storage if there is
\* one and with full containers otherwise; on a durable backend a service
\* built after a successful mutation reports the levels of the first.
C6_LoadsWhatWasSaved ==
    [][Restart =>
          /\ (backend \in Durable /\ saved # {}) =>
                {CoffeeMachine_status(_machine')} = saved
          /\ (backend \notin Durable \/ saved = {}) =>
                _machine' = default_machine(settings.water_capacity_ml, settings.coffee_capacity_g)
          /\ (backend \in Durable /\ response.op \in Mutations
                 /\ response.raised = NoError) =>
                /\ _machine'.water_container.level = _machine.water_container.level
                /\ _machine'.coffee_container.level = _machine.coffee_container.level
                /\ CoffeeMachine_status(_machine') = response.body.status]_vars

\* A service built on the JSON file of an earlier one starts with used
\* containers.
C6_Witness ==
    /\ backend = "json"
    /\ ~_lock
    /\ response = NoResponse
    /\ saved = {CoffeeMachine_status(_machine)}
    /\ _machine.water_container.level < settings.water_capacity_ml
    /\ _machine.coffee_container.level < settings.coffee_capacity_g

\* C7 as stated: for every backend a load on a new storage object of the same
\* path returns the snapshot that was saved last.
C7_RoundTripEveryBackend ==
    [][(Restart /\ saved # {}) =>
          Storage_load(backend', files', table', _state') = saved]_vars

\* C7 as amended: for the JSON file and the SQLite backend a load on a new
\* storage object of the same path returns the snapshot that was saved
\* last; the memory backend returns it on the same object and returns
\* nothing on a new one.
C7_RoundTripDurable ==
    [][/\ (Restart /\ saved # {} /\ backend \in Durable) =>
             Storage_load(backend', files', table', _state') = saved
       /\ (Restart /\ backend = "memory") =>
             Storage_load(backend', files', table', _state') = {}
       /\ saved' # {} =>
             Storage_load(backend', files', table', _state') = saved']_vars

\* A service built on the SQLite file of an earlier one, whose last save
\* followed a fill.
C7_Witness ==
    /\ backend = "sqlite"
    /\ ~_lock
    /\ response = NoResponse
    /\ Stored = saved
    /\ \E d \in saved : d.last_message = <<"Added ", "4", "8", " ml of water.">>

\* C8: a fill with amount > capacity - level raises ContainerOverflowError
\* with the amount and free_capacity = capacity - level and leaves the level;
\* a fill with 0 < amount <= capacity - level raises the level by amount.
C8_FillOverflow ==
    [][\A r \in Requests :
          /\ MachineStep(r, "fill_water") =>
                LET c == _machine.water_container
                    amount == args[r].amount
                IN  /\ amount > c.capacity - c.level =>
                          /\ response'.raised = ContainerOverflowError(
                                 "water", amount, c.capacity - c.level)
                          /\ _machine' = _machine
                    /\ (0 < amount /\ amount <= c.capacity - c.level) =>
                          /\ pc'[r] = "persist"
                          /\ _machine'.water_container.level = c.level + amount
          /\ MachineStep(r, "fill_coffee") =>
                LET c == _machine.coffee_container
                    amount == args[r].amount
                IN  /\ amount > c.capacity - c.level =>
                          /\ response'.raised = ContainerOverflowError(
                                 "coffee", amount, c.capacity - c.level)
                          /\ _machine' = _machine
                    /\ (0 < amount /\ amount <= c.capacity - c.level) =>
                          /\ pc'[r] = "persist"
                          /\ _machine'.coffee_container.level = c.level + amount]_vars

\* A fill of the water container was refused although it had some room.
C8_Witness ==
    /\ response.raised.type = "ContainerOverflowError"
    /\ response.raised.container_name = "water"
    /\ response.raised.free_capacity > 0
    /\ response.raised.free_capacity < response.raised.attempted_amount
    /\ response.raised.free_capacity =
          _machine.water_container.capacity - _machine.water_container.level

\* C9: a fill with amount <= 0 raises InvalidFillAmountError, never
\* ContainerOverflowError, and leaves the level.
C9_FillNonPositive ==
    [][\A r \in Requests :
          /\ (MachineStep(r, "fill_water") /\ args[r].amount <= 0) =>
                /\ response'.raised =
                      InvalidFillAmountError("water", args[r].amount)
                /\ _machine' = _machine
          /\ (MachineStep(r, "fill_coffee") /\ args[r].amount <= 0) =>
                /\ response'.raised =
                      InvalidFillAmountError("coffee", args[r].amount)
                /\ _machine' = _machine
          /\ (pc[r] = "locked" /\ args[r].op \in {"fill_water", "fill_coffee"}
                /\ args[r].amount <= 0) => pc'[r] # "persist"]_vars

\* A fill of 0 was refused while the container had room.
C9_Witness ==
    /\ response.raised.type = "InvalidFillAmountError"
    /\ response.raised.attempted_amount = 0
    /\ response.raised.container_name = "coffee"
    /\ _machine.coffee_container.level < _machine.coffee_container.capacity

\* C10: a use with amount > level raises ContainerEmptyError with the name of
\* the container, the amount and the level before the call, and leaves the
\* level; a use with amount <= level lowers the level by amount.
C10_UseEmpty ==
    [][\A r \in Requests :
          (MachineStep(r, "brew") /\ args[r].recipe_key \in DOMAIN RECIPES) =>
             LET recipe == RECIPES[args[r].recipe_key]
                 water == _machine.water_container
                 coffee == _machine.coffee_container
             IN  /\ recipe.water_ml > water.level =>
                       /\ response'.raised = ContainerEmptyError(
                              "water", recipe.water_ml, water.level)
                       /\ _machine'.water_container.level = water.level
                 /\ recipe.water_ml <= water.level =>
                       /\ _machine'.water_container.level =
                             water.level - recipe.water_ml
                       /\ recipe.coffee_g > coffee.level =>
                             /\ response'.raised = ContainerEmptyError(
                                    "coffee", recipe.coffee_g, coffee.level)
                             /\ _machine'.coffee_container.level = coffee.level
                       /\ recipe.coffee_g <= coffee.level =>
                             _machine'.coffee_container.level =
                                coffee.level - recipe.coffee_g]_vars

\* A brew was refused by a coffee container that was not empty.
C10_Witness ==
    /\ response.raised.type = "ContainerEmptyError"
    /\ response.raised.container_name = "coffee"
    /\ response.raised.required_amount = 16
    /\ response.raised.available_amount = 8
    /\ _machine.coffee_container.level = 8

\* C11: brew checks the water before the coffee: a brew of a recipe of the
\* table with less water than the recipe's water_ml raises
\* ContainerEmptyError for the water container, also when the coffee is
\* insufficient too, and leaves the coffee level and last_message (the
\* whole machine) as they were.
C11_WaterCheckedFirst ==
    [][\A r \in Requests :
          (/\ MachineStep(r, "brew")
           /\ args[r].recipe_key \in DOMAIN RECIPES
           /\ _machine.water_container.level < RECIPES[args[r].recipe_key].water_ml)
          => /\ response'.raised = ContainerEmptyError(
                    "water", RECIPES[args[r].recipe_key].water_ml,
                    _machine.water_container.level)
             /\ _machine'.coffee_container = _machine.coffee_container
             /\ _machine'.last_message = _machine.last_message
             /\ _machine' = _machine]_vars

\* A brew was refused for its water while the coffee container, too, held
\* less than the recipe asks for.
C11_Witness ==
    /\ response.op = "brew"
    /\ response.raised.type = "ContainerEmptyError"
    /\ response.raised.container_name = "water"
    /\ response.raised.required_amount = 24
    /\ _machine.coffee_container.level < 8
    /\ _machine.last_message # None

\* C12 as stated: when save fails after the machine operation of a mutation
\* succeeded, the response of the mutation still reports the result in
\* memory: the message and the status of the machine after the mutation.
C12_SaveFailureStillReports ==
    (response.op \in Mutations /\ handed # {}) =>
        /\ response.raised = NoError
        /\ response.body.message = _machine.last_message
        /\ response.body.status = CoffeeMachine_status(_machine)

\* The step of a status.
StatusStep(r) ==
    /\ pc[r] = "locked"
    /\ args[r].op = "status"
    /\ response'.op = "status"

\* The step of a save that raises.
SaveFails(r) ==
    /\ pc[r] = "persist"
    /\ response'.raised = StorageError

\* C13: when save raises, the machine in memory keeps the state after the
\* mutation, the lock is released, the storage keeps the snapshot it held,
\* and a status that follows reports the levels after the mutation.
C13_SaveFailureKeepsMemory ==
    [][/\ \A r \in Requests :
             SaveFails(r) =>
                /\ _machine' = _machine
                /\ handed' = {CoffeeMachine_to_dict(_machine')}
                /\ ~_lock'
                /\ pc'[r] = "acquire"
                /\ Storage_load(backend', files', table', _state') = Stored
                /\ Stored = saved
       /\ (response.raised = StorageError /\ response' # response /\ ~Restart) =>
             /\ _lock'
             /\ _machine' = _machine
             /\ handed' = {}
       /\ \A r \in Requests :
             StatusStep(r) => response'.body = CoffeeMachine_status(_machine)]_vars

\* A save raised after a brew on a storage that holds the snapshot of an
\* earlier mutation: memory and storage disagree and the lock is free.
C13_Witness ==
    /\ response.op = "brew"
    /\ response.raised = StorageError
    /\ ~_lock
    /\ Stored # {}
    /\ Stored # {CoffeeMachine_to_dict(_machine)}
    /\ handed = {CoffeeMachine_to_dict(_machine)}

\* C14 as stated: a brew of a name that is not in the table fails before a
\* container is touched and before anything is saved, with an error of the
\* domain that the transport layer renders as a client error with the
\* message of the error, as it renders the three container errors.
C14_UnknownRecipeIsClientError ==
    [][\A r \in Requests :
          /\ (MachineStep(r, "brew") /\ args[r].recipe_key \notin DOMAIN RECIPES) =>
                /\ response'.raised # NoError
                /\ _machine' = _machine
                /\ handed' = {}
                /\ saved' = saved
                /\ exception_handler(response'.raised).status_code = 400
                /\ exception_handler(response'.raised).content.message =
                      Exception_str(response'.raised)
          /\ (pc[r] = "locked" /\ response'.raised.type \in CoffeeMachineError) =>
                /\ exception_handler(response'.raised).status_code = 400
                /\ exception_handler(response'.raised).content.message =
                      Exception_str(response'.raised)]_vars

\* C15 as stated: a status that acquires the lock after a mutation returned
\* reports the state the latest completed mutation produced (the one its
\* save stored), levels and last_message, and no other state.
C15_ReadAfterWrite ==
    [][\A r \in Requests :
          (StatusStep(r) /\ saved # {}) => {response'.body} = saved]_vars

\* C16 as stated: the memory storage returns nothing before the first save
\* and afterwards the snapshot that was saved last, whatever the holder does
\* to the dict it passed to save and to the dicts load returned.
C16_LoadReturnsLastSaved ==
    MemoryStateStorage_load(_state) = saved

\* C17: on the JSON backend every step, a save that returns, a save that
\* raises or is cut short at any of its statements, a restart after it,
\* leaves at the path what was there before or the whole document of the
\* snapshot given to save; a reader of the path finds no file or a whole
\* document, the previous or the new one, never a part of one.
C17_TargetNeverHalfWritten ==
    [][backend = "json" =>
          /\ files'.path \in {files.path} \cup {{json_dumps(d)} : d \in handed'}
          /\ \A doc \in files'.path :
                /\ doc[1] = "obj"
                /\ \E d \in saved' : doc = json_dumps(d)]_vars

\* A save was cut short in the middle of its dump while the path held the
\* snapshot of an earlier save: the .tmp sibling holds a part of a document,
\* the path the whole earlier one.
C17_Witness ==
    /\ backend = "json"
    /\ response.raised = StorageError
    /\ files.tmp_path # {}
    /\ \A doc \in files.tmp_path : doc[1] = "cut"
    /\ files.path # {}
    /\ files.path # {json_dumps(d) : d \in handed}
    /\ JSONStateStorage_load(files) = saved

\* C18: a status returns the levels and the capacities of the two
\* containers and last_message as they are, changes neither the machine nor
\* what the storage holds, and calls no save.
C18_StatusReadsOnly ==
    [][\A r \in Requests :
          StatusStep(r) =>
             /\ response'.raised = NoError
             /\ response'.body = CoffeeMachine_status(_machine)
             /\ response'.body.water.level = _machine.water_container.level
             /\ response'.body.water.capacity = _machine.water_container.capacity
             /\ response'.body.coffee.level = _machine.coffee_container.level
             /\ response'.body.coffee.capacity = _machine.coffee_container.capacity
             /\ response'.body.last_message = _machine.last_message
             /\ _machine' = _machine
             /\ <<files', table', _state'>> = <<files, table, _state>>
             /\ handed' = {}
             /\ saved' = saved
             /\ ~_lock']_vars

\* A status returned the levels of a machine that differ from the ones the
\* storage holds (a brew took water and failed on the coffee), and nothing
\* was handed to save.
C18_Witness ==
    /\ response.op = "status"
    /\ response.raised = NoError
    /\ response.body.last_message # None
    /\ response.body.water.level < response.body.water.capacity
    /\ handed = {}
    /\ Stored # {}
    /\ Stored # {response.body}

\* C19: under fair scheduling every pending request acquires the lock, and
\* every request that acquired it returns or raises with the lock released:
\* an operation that failed keeps no later request out.  Each client has a
\* request pending whenever it is not under the lock, so each client is under
\* the lock again and again, and again and again back with the lock free.
C19_EveryRequestReturns ==
    \A r \in Requests :
        /\ []<>(pc[r] = "locked")
        /\ []<>(pc[r] = "acquire" /\ ~_lock)

\* A save raised and released the lock while both requests wait for it.
C19_Witness ==
    /\ response.raised = StorageError
    /\ ~_lock
    /\ \A r \in Requests : pc[r] = "acquire"
    /\ failures = MaxFailures

\* C20 as stated: on a storage whose save never fails, whenever the lock is
\* free and the storage holds a snapshot, the snapshot equals the state of
\* the machine in memory, after any sequence of operations that succeeded or
\* failed.
C20_StoredEqualsMemory ==
    (~_lock /\ Stored # {}) => Stored = {CoffeeMachine_to_dict(_machine)}

\* C21: a service operation whose machine call raises an error of the domain
\* saves nothing and is not tried again: the storage holds exactly what it
\* held before the request, nothing while no mutation has succeeded (the
\* construction of the service writes nothing), the request ends with the
\* error, and a request calls save at most once.
C21_FailureSavesNothing ==
    [][/\ \A r \in Requests : \A op \in Mutations :
             (MachineStep(r, op) /\ response'.raised # NoError) =>
                /\ response'.raised.type \in CoffeeMachineError \cup {"ValueError"}
                /\ handed = {} /\ handed' = {}
                /\ saved' = saved
                /\ <<files', table', _state'>> = <<files, table, _state>>
                /\ Storage_load(backend', files', table', _state') = Stored
                /\ pc'[r] = "acquire"
                /\ ~_lock'
       /\ \A r \in Requests :
             /\ pc[r] = "persist" =>
                   /\ handed = {}
                   /\ pc'[r] \in {"persist", "respond", "acquire"}
             /\ (pc[r] = "persist" /\ pc'[r] = "persist") => handed' = {}
             /\ pc[r] = "respond" => pc'[r] \in {"respond", "acquire"}
       /\ Restart => (files' = files /\ table' = table /\ handed' = {})
       /\ (saved = {} => Stored = {})
       /\ (saved' = {} => Storage_load(backend', files', table', _state') = {})]_vars

\* A fill was refused for overflow after an earlier mutation was saved: the
\* storage still holds that snapshot and nothing was handed to save.
C21_Witness ==
    /\ response.raised.type = "ContainerOverflowError"
    /\ handed = {}
    /\ saved # {}
    /\ Stored = saved
    /\ ~_lock

====
